---------------------------- MODULE Spec2Model ----------------------------
(***************************************************************************)
(* A model of src/cgmm_mvdr.py: the CGMM class (one zero-mean complex      *)
(* Gaussian mixture class), the CGMM_MVDR trainer that owns a noise and a  *)
(* noisy class, the EM loop of CGMM_MVDR.train and the mask selection of   *)
(* CGMM_MVDR.noise_lambda.                                                  *)
(*                                                                         *)
(* Numbers.  The program computes in complex128, whose parts are IEEE      *)
(* doubles.  The model computes in a miniature of that arithmetic.  A      *)
(* number is an integer r that stands for r / SCALE and has at most        *)
(* Precision significant bits; the result of every operation is the exact  *)
(* result rounded to the nearest such number, ties to even (numbers below  *)
(* 2^Precision / SCALE lie on the grid of 1 / SCALE, as the subnormal      *)
(* doubles do); a result whose magnitude exceeds MaxMag is the non-finite  *)
(* value NaN (inf and nan are not told apart); x / 0 is NaN, and NaN is    *)
(* absorbing.  The inputs are real.  The one place where a real input can  *)
(* produce an imaginary part is the logarithm of a negative number, whose  *)
(* value is Cx, "a number with an imaginary part", also absorbing.         *)
(*                                                                         *)
(* An operator that models a method returns a record: err is the exception *)
(* that the method raised ("none" when it returned), and the other fields  *)
(* are the object as the method left it and what the method returned.      *)
(***************************************************************************)
EXTENDS Integers, Sequences, FiniteSets, TLC

\* ---------------------------------------------------------------- bounds
FracBits == 8      \* the smallest positive number is 2^-FracBits
Precision == 8     \* significant bits of a number
MagBits == 5       \* the largest finite magnitude is 2^MagBits
MaxVal == 1        \* spectrum entries are 0..MaxVal
MaxIters == 2      \* train(spectrums, iters) is called with iters in 0..MaxIters
MaxCalls == 4      \* number of method calls a client makes in SpecApi
MaxReads == 2      \* number of noise_lambda calls that follow train in Spec

\* ------------------------------------------------------- configuration
\* test_solution = CGMM_MVDR(num_bins, time_steps, num_channels)
num_bins == 2
time_steps == 2
dim == 2

\* ------------------------------------------------------------ arithmetic
SCALE == 2^FracBits
MaxMag == 2^MagBits
MaxRaw == SCALE * MaxMag
NaN == MaxRaw + 1
Cx == MaxRaw + 2
Finite(a) == a # NaN /\ a # Cx

Abs(n) == IF n < 0 THEN -n ELSE n

RECURSIVE Ulp(_)
\* the spacing of the numbers around the magnitude q: the power of two u with
\* q \div u < 2^Precision
Ulp(q) == IF q < 2^Precision THEN 1 ELSE 2 * Ulp(q \div 2)

\* the integer nearest to n / d, ties to even (n >= 0, d > 0)
Nearest(n, d) ==
    IF 2 * (n % d) > d \/ (2 * (n % d) = d /\ (n \div d) % 2 = 1)
    THEN (n \div d) + 1
    ELSE n \div d

\* the magnitude m with the sign of a positive or a negative number; NaN when
\* m is out of range
Signed(m, positive) ==
    IF m > MaxRaw THEN NaN ELSE IF positive THEN m ELSE -m

\* n / d rounded to a multiple of the spacing u (n >= 0, d > 0)
Rounded(n, d, u) == Nearest(n, d * u) * u

\* the rational n / d (d # 0) as a number: rounded to Precision significant
\* bits, NaN when it is out of range
Fl(n, d) ==
    Signed(Rounded(Abs(n), Abs(d), Ulp(Abs(n) \div Abs(d))), (n < 0) = (d < 0))

\* the integer n as a number
Num(n) == Fl(n * SCALE, 1)
One == Num(1)

\* the result of an operation one of whose operands is not a finite real
Special(a, b) == IF a = NaN \/ b = NaN THEN NaN ELSE Cx

Add(a, b) == IF Finite(a) /\ Finite(b) THEN Fl(a + b, 1) ELSE Special(a, b)
Sub(a, b) == IF Finite(a) /\ Finite(b) THEN Fl(a - b, 1) ELSE Special(a, b)
Mul(a, b) == IF Finite(a) /\ Finite(b) THEN Fl(a * b, SCALE) ELSE Special(a, b)
\* numpy division: a zero divisor gives inf or nan and a warning, no exception
Div(a, b) ==
    IF Finite(a) /\ Finite(b)
    THEN IF b = 0 THEN NaN ELSE Fl(a * SCALE, b)
    ELSE Special(a, b)
Neg(a) == IF Finite(a) THEN -a ELSE a

\* -0.5 * a
NegHalf(a) == IF Finite(a) THEN Fl(-a, 2) ELSE a

RECURSIVE Pow(_, _)
Pow(a, n) == IF n = 0 THEN One ELSE Mul(a, Pow(a, n - 1))

RECURSIVE SumTo(_, _)
\* g[1] + ... + g[n], left to right
SumTo(g, n) == IF n = 0 THEN 0 ELSE Add(SumTo(g, n - 1), g[n])

Sum(g) == SumTo(g, Len(g))

\* math.log(2), math.log(math.pi)
LN2 == Fl(SCALE * 6931, 10000)
LOG_PI == Fl(SCALE * 11447, 10000)

RECURSIVE LogPos(_)
\* log a for a positive a, on the grid: a is halved or doubled into
\* [3/4, 3/2], where log a = 2 atanh((a - 1) / (a + 1)) is taken at its
\* first term
LogPos(a) ==
    IF 2 * a > 3 * SCALE THEN LN2 + LogPos(Nearest(a, 2))
    ELSE IF 4 * a < 3 * SCALE THEN LogPos(2 * a) - LN2
    ELSE IF a >= SCALE THEN Nearest(2 * (a - SCALE) * SCALE, a + SCALE)
    ELSE -Nearest(2 * (SCALE - a) * SCALE, a + SCALE)

\* np.log on a complex argument: log 0 = -inf, log of a negative real has
\* the imaginary part pi
Log(a) ==
    IF ~Finite(a) THEN a
    ELSE IF a = 0 THEN NaN
    ELSE IF a < 0 THEN Cx
    ELSE Fl(LogPos(a), 1)

\* np.log on a real array: log 0 = -inf and the log of a negative number is
\* nan, and either makes the product with it nan
RealLog(p) == IF ~Finite(p) \/ p <= 0 THEN NaN ELSE Fl(LogPos(p), 1)

RECURSIVE ISqrtB(_, _, _)
\* the largest r in lo..hi with r * r <= n
ISqrtB(n, lo, hi) ==
    IF lo >= hi THEN lo
    ELSE IF ((lo + hi + 1) \div 2) * ((lo + hi + 1) \div 2) <= n
         THEN ISqrtB(n, (lo + hi + 1) \div 2, hi)
         ELSE ISqrtB(n, lo, ((lo + hi + 1) \div 2) - 1)

\* the square root of a finite a >= 0
Sqrt(a) == Fl(ISqrtB(a * SCALE, 0, MaxRaw), 1)

\* ---------------------------------------------------------------- matrices
\* a matrix is a sequence of rows; a vector a sequence of numbers
Zeros(m) == [i \in 1..m |-> [j \in 1..m |-> 0]]
Eye(m) == [i \in 1..m |-> [j \in 1..m |-> IF i = j THEN One ELSE 0]]

\* y.H * y for the row vector y (real entries: the conjugate is the entry)
Outer(y) == [i \in 1..Len(y) |-> [j \in 1..Len(y) |-> Mul(y[i], y[j])]]

MatAdd(A, B) == [i \in 1..Len(A) |-> [j \in 1..Len(A) |-> Add(A[i][j], B[i][j])]]
MatScale(A, c) == [i \in 1..Len(A) |-> [j \in 1..Len(A) |-> Mul(c, A[i][j])]]
MatDiv(A, c) == [i \in 1..Len(A) |-> [j \in 1..Len(A) |-> Div(A[i][j], c)]]
MatMul(A, B) ==
    [i \in 1..Len(A) |-> [j \in 1..Len(A) |->
        Sum([k \in 1..Len(A) |-> Mul(A[i][k], B[k][j])])]]
Trace(A) == Sum([i \in 1..Len(A) |-> A[i][i]])
MatFinite(A) == \A i \in 1..Len(A) : \A j \in 1..Len(A) : Finite(A[i][j])

\* np.linalg.det, for the 1 x 1 and 2 x 2 matrices of the model
Det(A) ==
    IF Len(A) = 1 THEN A[1][1]
    ELSE Sub(Mul(A[1][1], A[2][2]), Mul(A[1][2], A[2][1]))

\* mat.I raises LinAlgError on an exactly singular matrix
Singular(A) == Det(A) = 0

\* the inverse of A, whose determinant is d # 0
InvBy(A, d) ==
    IF Len(A) = 1 THEN << << Div(One, d) >> >>
    ELSE << << Div(A[2][2], d), Div(Neg(A[1][2]), d) >>,
            << Div(Neg(A[2][1]), d), Div(A[1][1], d) >> >>

\* mat.I of a matrix that is not singular
Inv(A) == InvBy(A, Det(A))

\* obs * sigma_inv * obs.T
Quad(obs, A) ==
    Sum([i \in 1..Len(obs) |->
        Sum([j \in 1..Len(obs) |-> Mul(Mul(obs[i], A[i][j]), obs[j])])])

RECURSIVE MatSumTo(_, _, _)
\* sum(ms[lo : lo + n]) of python, for the list ms of matrices
MatSumTo(ms, lo, n) ==
    IF n = 1 THEN ms[lo + 1] ELSE MatAdd(MatSumTo(ms, lo, n - 1), ms[lo + n])

\* the real parts of the roots of the characteristic polynomial of a 2 x 2
\* matrix with half trace h and discriminant disc: a negative discriminant
\* gives a conjugate pair, whose real parts are both h
Roots(h, disc) ==
    IF ~Finite(disc) THEN << NaN, NaN >>
    ELSE IF disc < 0 THEN << h, h >>
    ELSE << Add(h, Sqrt(disc)), Sub(h, Sqrt(disc)) >>

\* the square of a
Sq(a) == Mul(a, a)

\* np.linalg.eig(A)[0].real of a finite 1 x 1 or 2 x 2 matrix
EigReal(A) ==
    IF Len(A) = 1 THEN << A[1][1] >>
    ELSE Roots(Div(Add(A[1][1], A[2][2]), Num(2)),
               Add(Sq(Div(Sub(A[1][1], A[2][2]), Num(2))), Mul(A[1][2], A[2][1])))

\* ------------------------------------------------------ gmm_posterior
gmm_posterior(obs, phi, sigma_inv, sigma_det) ==
    NegHalf(Add(Add(Mul(LOG_PI, Num(Len(obs))),
                    Log(Mul(sigma_det, Pow(phi, Len(obs))))),
                Div(Quad(obs, sigma_inv), phi)))

\* ------------------------------------------------------------ class CGMM
Unset == << >>     \* an attribute that no assignment has created yet

Grid(v) == [f \in 1..num_bins |-> [t \in 1..time_steps |-> v]]

\* CGMM.__init__: lambda_ zeros, phi ones, posterior zeros; sigma_inv and
\* sigma_det do not exist before init_sigma
CGMM_new ==
    [lambda_ |-> Grid(0), phi |-> Grid(One), posterior |-> Grid(0),
     sigma_inv |-> Unset, sigma_det |-> Unset]

\* inputs.shape
Shape(inputs) == << Len(inputs), Len(inputs[1]), Len(inputs[1][1]) >>

\* CGMM.check_inputs: the assertion holds
check_inputs(inputs) == Shape(inputs) = << num_bins, time_steps, dim >>

\* CGMM.init_sigma(sigma): the list comprehension of mat.I raises before
\* either attribute is assigned
CGMM_init_sigma(c, sigma) ==
    IF \E f \in 1..Len(sigma) : Singular(sigma[f])
    THEN [err |-> "LinAlgError", c |-> c]
    ELSE [err |-> "none",
          c |-> [c EXCEPT !.sigma_inv = [f \in 1..Len(sigma) |-> Inv(sigma[f])],
                          !.sigma_det = [f \in 1..Len(sigma) |-> Det(sigma[f])]]]

\* the loop of accu_stats: gmm_posterior at every cell
PosteriorGrid(c, spectrums) ==
    [f \in 1..num_bins |-> [t \in 1..time_steps |->
        gmm_posterior(spectrums[f][t], c.phi[f][t], c.sigma_inv[f], c.sigma_det[f])]]

\* (self.lambda_ * self.posterior).sum() / (self.num_bins * self.time_steps)
LogLikelihood(lambda_, post) ==
    Div(Sum([f \in 1..num_bins |->
            Sum([t \in 1..time_steps |-> Mul(lambda_[f][t], post[f][t])])]),
        Num(num_bins * time_steps))

\* accu_stats once the grid post is computed: it is kept as self.posterior and
\* returned with the log likelihood
AccuDone(c, post) ==
    [err |-> "none", c |-> [c EXCEPT !.posterior = post], post |-> post,
     ll |-> LogLikelihood(c.lambda_, post)]

\* CGMM.accu_stats(spectrums): returns (self.posterior, log_likelihood)
CGMM_accu_stats(c, spectrums) ==
    IF ~check_inputs(spectrums)
    THEN [err |-> "AssertionError", c |-> c, post |-> Unset, ll |-> 0]
    ELSE IF c.sigma_inv = Unset
    THEN [err |-> "AttributeError", c |-> c, post |-> Unset, ll |-> 0]
    ELSE AccuDone(c, PosteriorGrid(c, spectrums))

\* CGMM.update_lambda(spectrums, stats): lambda_ = posterior / stats
update_lambda(c, stats) ==
    [c EXCEPT !.lambda_ = [f \in 1..num_bins |-> [t \in 1..time_steps |->
                              Div(c.posterior[f][t], stats[f][t])]]]

\* covar[f * self.time_steps + t]
CovarAt(covar, f, t) == covar[(f - 1) * time_steps + t]

\* CGMM.update_phi(covar): phi[f, t] = trace(covar * sigma_inv[f]), then / dim
update_phi(c, covar) ==
    [c EXCEPT !.phi = [f \in 1..num_bins |-> [t \in 1..time_steps |->
        Div(Trace(MatMul(CovarAt(covar, f, t), c.sigma_inv[f])), Num(dim))]]]

RECURSIVE RAccum(_, _, _, _)
\* the inner loop of update_sigma: R += lambda_[f, t] * covar[..] / phi[f, t]
RAccum(c, covar, f, t) ==
    IF t = 0 THEN Zeros(dim)
    ELSE MatAdd(RAccum(c, covar, f, t - 1),
                MatDiv(MatScale(CovarAt(covar, f, t), c.lambda_[f][t]), c.phi[f][t]))

\* the matrix R of bin f in update_sigma
SigmaOf(c, covar, f) == MatDiv(RAccum(c, covar, f, time_steps), Sum(c.lambda_[f]))

RECURSIVE SigmaLoop(_, _, _)
\* update_sigma at bin f, whose matrix is R: R.I raises on a singular R, and
\* the bins before it keep their new sigma_inv and sigma_det
SigmaBin(c, covar, f, R) ==
    IF Singular(R) THEN [err |-> "LinAlgError", c |-> c]
    ELSE SigmaLoop([c EXCEPT !.sigma_inv[f] = Inv(R), !.sigma_det[f] = Det(R)],
                   covar, f + 1)

\* CGMM.update_sigma from bin f on
SigmaLoop(c, covar, f) ==
    IF f > num_bins THEN [err |-> "none", c |-> c]
    ELSE SigmaBin(c, covar, f, SigmaOf(c, covar, f))

\* CGMM.update_sigma(covar)
update_sigma(c, covar) == SigmaLoop(c, covar, 1)

\* a variant of UpdatePhiSigma that runs update_sigma before update_phi
UpdateSigmaPhi(c, covar) ==
    IF c.sigma_inv = Unset THEN [err |-> "AttributeError", c |-> c]
    ELSE [err |-> update_sigma(c, covar).err,
          c |-> update_phi(update_sigma(c, covar).c, covar)]

\* update_parameters after update_lambda has left the class as c: update_phi
\* reads self.sigma_inv, then update_sigma
UpdatePhiSigma(c, covar) ==
    IF c.sigma_inv = Unset THEN [err |-> "AttributeError", c |-> c]
    ELSE update_sigma(update_phi(c, covar), covar)

\* a variant of CGMM.update_parameters without check_inputs
CGMM_update_parameters_unchecked(c, spectrums, covar, stats) ==
    IF Len(covar) # num_bins * time_steps THEN [err |-> "AssertionError", c |-> c]
    ELSE UpdatePhiSigma(update_lambda(c, stats), covar)

\* CGMM.update_parameters(spectrums, covar, stats)
CGMM_update_parameters(c, spectrums, covar, stats) ==
    IF ~check_inputs(spectrums) THEN [err |-> "AssertionError", c |-> c]
    ELSE IF Len(covar) # num_bins * time_steps THEN [err |-> "AssertionError", c |-> c]
    ELSE UpdatePhiSigma(update_lambda(c, stats), covar)

\* real_eigen = egval.real / egval.real.sum()
Normalized(egval) == [i \in 1..Len(egval) |-> Div(egval[i], Sum(egval))]

\* -(real_eigen * np.log(real_eigen)).sum()
EntropyOf(real_eigen) ==
    Neg(Sum([i \in 1..Len(real_eigen) |-> Mul(real_eigen[i], RealLog(real_eigen[i]))]))

\* the entropy of one bin in covar_entropy, from its sigma_inv
Entropy(sigma_inv) == EntropyOf(Normalized(EigReal(Inv(sigma_inv))))

\* CGMM.covar_entropy: sigma_inv.I raises LinAlgError on a singular matrix
\* and np.linalg.eig on a matrix that holds an inf or a nan
covar_entropy(c) ==
    IF c.sigma_inv = Unset THEN [err |-> "AttributeError", entropy |-> Unset]
    ELSE IF \E f \in 1..Len(c.sigma_inv) :
                \/ ~MatFinite(c.sigma_inv[f])
                \/ Singular(c.sigma_inv[f])
                \/ ~MatFinite(Inv(c.sigma_inv[f]))
         THEN [err |-> "LinAlgError", entropy |-> Unset]
    ELSE [err |-> "none",
          entropy |-> [f \in 1..Len(c.sigma_inv) |-> Entropy(c.sigma_inv[f])]]

\* -------------------------------------------------------- class CGMM_MVDR
\* CGMM_MVDR.__init__: self.covar does not exist before init_sigma
MVDR_new == [noise_part |-> CGMM_new, noisy_part |-> CGMM_new, covar |-> Unset]

\* [y.H * y for y in [spectrums[f, t] for f ... for t ...]], f outer, t inner
CovarOf(spectrums) ==
    [k \in 1..(Len(spectrums) * Len(spectrums[1])) |->
        Outer(spectrums[((k - 1) \div Len(spectrums[1])) + 1]
                       [((k - 1) % Len(spectrums[1])) + 1])]

\* sum(covar[f * time_steps: (f + 1) * time_steps]) / time_steps, for the
\* list covar of nt matrices a bin
MeanCovar(covar, f, nt) == MatDiv(MatSumTo(covar, (f - 1) * nt, nt), Num(nt))

\* init_sigma once both classes' init_sigma have run, or the first of them
\* has raised: self.covar is assigned before either
InitDone(m, covar, n, y) ==
    IF n.err # "none" THEN [err |-> n.err, m |-> [m EXCEPT !.covar = covar]]
    ELSE IF y.err # "none"
    THEN [err |-> y.err, m |-> [m EXCEPT !.covar = covar, !.noise_part = n.c]]
    ELSE [err |-> "none",
          m |-> [m EXCEPT !.covar = covar, !.noise_part = n.c, !.noisy_part = y.c]]

\* CGMM_MVDR.init_sigma(spectrums): the dimensions are those of spectrums;
\* identity matrices for the noise class, each bin's mean covariance for the
\* noisy class
MVDR_init_sigma(m, spectrums) ==
    InitDone(m, CovarOf(spectrums),
             CGMM_init_sigma(m.noise_part,
                 [f \in 1..Len(spectrums) |-> Eye(Len(spectrums[1][1]))]),
             CGMM_init_sigma(m.noisy_part,
                 [f \in 1..Len(spectrums) |->
                     MeanCovar(CovarOf(spectrums), f, Len(spectrums[1]))]))

GridAdd(a, b) == [f \in 1..num_bins |-> [t \in 1..time_steps |-> Add(a[f][t], b[f][t])]]

\* a variant of AccuJoin that returns the noisy class's posterior grid alone
AccuJoinNoisyOnly(m, y, n) ==
    IF y.err # "none" THEN [err |-> y.err, m |-> m, stats |-> Unset, ll |-> 0]
    ELSE IF n.err # "none"
    THEN [err |-> n.err, m |-> [m EXCEPT !.noisy_part = y.c], stats |-> Unset, ll |-> 0]
    ELSE [err |-> "none", m |-> [m EXCEPT !.noisy_part = y.c, !.noise_part = n.c],
          stats |-> y.post, ll |-> Add(y.ll, n.ll)]

\* accu_stats once the noisy class's accu_stats has returned y and the noise
\* class's n: the sum of the two posterior grids and of the two proxies
AccuJoin(m, y, n) ==
    IF y.err # "none" THEN [err |-> y.err, m |-> m, stats |-> Unset, ll |-> 0]
    ELSE IF n.err # "none"
    THEN [err |-> n.err, m |-> [m EXCEPT !.noisy_part = y.c], stats |-> Unset, ll |-> 0]
    ELSE [err |-> "none", m |-> [m EXCEPT !.noisy_part = y.c, !.noise_part = n.c],
          stats |-> GridAdd(y.post, n.post), ll |-> Add(y.ll, n.ll)]

\* CGMM_MVDR.accu_stats(spectrums): the noisy class first, then the noise class
MVDR_accu_stats(m, spectrums) ==
    AccuJoin(m, CGMM_accu_stats(m.noisy_part, spectrums),
                CGMM_accu_stats(m.noise_part, spectrums))

\* a variant of UpdateJoin in which the noisy class takes the phi that the
\* noise class has just computed
UpdateJoinSharedPhi(m, n, y) ==
    IF n.err # "none" THEN [err |-> n.err, m |-> [m EXCEPT !.noise_part = n.c]]
    ELSE [err |-> y.err,
          m |-> [m EXCEPT !.noise_part = n.c,
                          !.noisy_part = [y.c EXCEPT !.phi = n.c.phi]]]

\* update_parameters once the noise class's update has returned n and, when
\* that raised nothing, the noisy class's y
UpdateJoin(m, n, y) ==
    IF n.err # "none" THEN [err |-> n.err, m |-> [m EXCEPT !.noise_part = n.c]]
    ELSE [err |-> y.err, m |-> [m EXCEPT !.noise_part = n.c, !.noisy_part = y.c]]

\* CGMM_MVDR.update_parameters(spectrums, stats): the noise class, then the
\* noisy class, each with self.covar and the same stats
MVDR_update_parameters(m, spectrums, stats) ==
    IF m.covar = Unset THEN [err |-> "AttributeError", m |-> m]
    ELSE UpdateJoin(m,
             CGMM_update_parameters(m.noise_part, spectrums, m.covar, stats),
             CGMM_update_parameters(m.noisy_part, spectrums, m.covar, stats))

\* e_n[f] > e_y[f]: a comparison with nan is False
Greater(a, b) == Finite(a) /\ Finite(b) /\ a > b

\* a variant of SelectRows that picks the noise class on equal entropies
SelectRowsTiesToNoise(m, e_n, e_y) ==
    IF e_n.err # "none" THEN [err |-> e_n.err, m |-> m, mask |-> Unset]
    ELSE IF e_y.err # "none" THEN [err |-> e_y.err, m |-> m, mask |-> Unset]
    ELSE [err |-> "none", m |-> m,
          mask |-> [f \in 1..num_bins |->
                      IF ~Greater(e_y.entropy[f], e_n.entropy[f])
                      THEN m.noise_part.lambda_[f]
                      ELSE m.noisy_part.lambda_[f]]]

\* a variant of SelectRows after a covar_entropy that inverts the noise
\* class's sigma_inv in place
SelectRowsInvertsInPlace(m, e_n, e_y) ==
    IF e_n.err # "none" THEN [err |-> e_n.err, m |-> m, mask |-> Unset]
    ELSE IF e_y.err # "none" THEN [err |-> e_y.err, m |-> m, mask |-> Unset]
    ELSE [err |-> "none",
          m |-> [m EXCEPT !.noise_part.sigma_inv =
                     [f \in 1..num_bins |-> Inv(m.noise_part.sigma_inv[f])]],
          mask |-> [f \in 1..num_bins |->
                      IF Greater(e_n.entropy[f], e_y.entropy[f])
                      THEN m.noise_part.lambda_[f]
                      ELSE m.noisy_part.lambda_[f]]]

\* noise_lambda once covar_entropy has returned e_n and e_y
SelectRows(m, e_n, e_y) ==
    IF e_n.err # "none" THEN [err |-> e_n.err, m |-> m, mask |-> Unset]
    ELSE IF e_y.err # "none" THEN [err |-> e_y.err, m |-> m, mask |-> Unset]
    ELSE [err |-> "none", m |-> m,
          mask |-> [f \in 1..num_bins |->
                      IF Greater(e_n.entropy[f], e_y.entropy[f])
                      THEN m.noise_part.lambda_[f]
                      ELSE m.noisy_part.lambda_[f]]]

\* CGMM_MVDR.noise_lambda()
noise_lambda(m) ==
    SelectRows(m, covar_entropy(m.noise_part), covar_entropy(m.noisy_part))

\* ------------------------------------------------------------------ inputs
Values == {Num(v) : v \in 0..MaxVal}

\* the real spectra of nb bins, nt frames and nc channels
Tensors(nb, nt, nc) == [1..nb -> [1..nt -> [1..nc -> Values]]]

\* what train is called with: spectra of the configured dimensions, and
\* spectra with one channel, one bin or one frame less
TrainInputs ==
    Tensors(num_bins, time_steps, dim) \cup Tensors(num_bins, time_steps, dim - 1)
      \cup Tensors(num_bins - 1, time_steps, dim) \cup Tensors(num_bins, time_steps - 1, dim)

\* spectra of other dimensions than sp: its last channel, its last bin or
\* its last frame left out
Mismatched(sp) ==
    { [f \in 1..Len(sp) |-> [t \in 1..Len(sp[f]) |-> SubSeq(sp[f][t], 1, Len(sp[f][t]) - 1)]],
      SubSeq(sp, 1, Len(sp) - 1),
      [f \in 1..Len(sp) |-> SubSeq(sp[f], 1, Len(sp[f]) - 1)] }

\* the utterances of the client of SpecApi: the 0/1 spectra of the configured
\* dimensions that init_sigma accepts (every bin's mean covariance has an
\* inverse)
ApiInputs ==
    {sp \in [1..num_bins -> [1..time_steps -> [1..dim -> {0, One}]]] :
        \A f \in 1..num_bins : ~Singular(MeanCovar(CovarOf(sp), f, time_steps))}

\* the grid g with the cell (f, t) replaced by zero
ZeroCell(g, f, t) == [g EXCEPT ![f][t] = 0]

\* the joint grids a client passes to update_parameters: the grid that
\* accu_stats returned, or that grid with one cell zero
StatsChoices(g) ==
    {g} \cup {ZeroCell(g, f, t) : f \in 1..num_bins, t \in 1..time_steps}

\* ------------------------------------------------------------------- state
VARIABLES
    mvdr,        \* the CGMM_MVDR object
    spectrums,   \* the utterance: the argument of train
    iters,       \* the argument of train
    pc,          \* where train is: "init_sigma", "accu_stats", "update", "done",
                 \* "error"; "client" when a client calls the methods itself
    it,          \* the number of loop iterations that train has completed
    stats,       \* the local variable stats of train: what accu_stats returned last
    err,         \* the exception that the last call raised, or "none"
    calls,       \* the CGMM_MVDR methods called so far, in order
    arg,         \* the spectrums argument of the last call
    joint,       \* the stats argument of the last update_parameters call
    mask,        \* what the last noise_lambda call returned
    reads        \* the number of noise_lambda calls

vars == << mvdr, spectrums, iters, pc, it, stats, err, calls, arg, joint, mask, reads >>

\* a variant of train_next whose loop tests after its body: one update runs
\* even when n = 0
train_next_do_while(p, e, i, n) ==
    IF e # "none" THEN "error"
    ELSE IF p = "init_sigma" THEN "accu_stats"
    ELSE IF p = "accu_stats" THEN (IF i < n \/ i = 0 THEN "update" ELSE "done")
    ELSE "accu_stats"

\* a variant of train_next that does not accumulate again after an update
train_next_no_reaccumulation(p, e, i, n) ==
    IF e # "none" THEN "error"
    ELSE IF p = "init_sigma" THEN "accu_stats"
    ELSE IF p = "accu_stats" THEN (IF i < n THEN "update" ELSE "done")
    ELSE IF i + 1 < n THEN "update" ELSE "done"

\* CGMM_MVDR.train: the step after the step at p, which raised e or "none"
\* after i completed iterations of n
train_next(p, e, i, n) ==
    IF e # "none" THEN "error"
    ELSE IF p = "init_sigma" THEN "accu_stats"
    ELSE IF p = "accu_stats" THEN (IF i < n THEN "update" ELSE "done")
    ELSE "accu_stats"

Fresh ==
    /\ mvdr = MVDR_new
    /\ it = 0
    /\ stats = Unset
    /\ err = "none"
    /\ calls = << >>
    /\ arg = Unset
    /\ joint = Unset
    /\ mask = Unset
    /\ reads = 0

\* test_solution = CGMM_MVDR(...); test_solution.train(spectrums, iters)
Init ==
    /\ Fresh
    /\ spectrums \in TrainInputs
    /\ iters \in 0..MaxIters
    /\ pc = "init_sigma"

\* the call self.init_sigma(sp) has ended as r
InitSigmaEnds(sp, r) ==
    /\ mvdr' = r.m
    /\ err' = r.err
    /\ calls' = Append(calls, "init_sigma")
    /\ arg' = sp
    /\ UNCHANGED << stats, joint, mask, reads >>

\* the call stats, likelihood = self.accu_stats(sp) has ended as r
AccuStatsEnds(sp, r) ==
    /\ mvdr' = r.m
    /\ err' = r.err
    /\ stats' = IF r.err = "none" THEN r.stats ELSE stats
    /\ calls' = Append(calls, "accu_stats")
    /\ arg' = sp
    /\ UNCHANGED << joint, mask, reads >>

\* the call self.update_parameters(sp, st) has ended as r
UpdateEnds(sp, st, r) ==
    /\ mvdr' = r.m
    /\ err' = r.err
    /\ calls' = Append(calls, "update_parameters")
    /\ arg' = sp
    /\ joint' = st
    /\ UNCHANGED << stats, mask, reads >>

\* the call self.noise_lambda() has ended as r
NoiseLambdaEnds(r) ==
    /\ mvdr' = r.m
    /\ err' = r.err
    /\ mask' = IF r.err = "none" THEN r.mask ELSE mask
    /\ reads' = reads + 1
    /\ UNCHANGED << stats, joint, arg >>

DoInitSigma(sp) == InitSigmaEnds(sp, MVDR_init_sigma(mvdr, sp))
DoAccuStats(sp) == AccuStatsEnds(sp, MVDR_accu_stats(mvdr, sp))
DoUpdate(sp, st) == UpdateEnds(sp, st, MVDR_update_parameters(mvdr, sp, st))
DoNoiseLambda == NoiseLambdaEnds(noise_lambda(mvdr))

\* train: self.init_sigma(spectrums)
TrainInitSigma ==
    /\ pc = "init_sigma"
    /\ DoInitSigma(spectrums)
    /\ pc' = train_next(pc, err', it, iters)
    /\ UNCHANGED << spectrums, iters, it >>

\* train: stats, likelihood = self.accu_stats(spectrums), before the loop
\* and at the end of each iteration
TrainAccuStats ==
    /\ pc = "accu_stats"
    /\ DoAccuStats(spectrums)
    /\ pc' = train_next(pc, err', it, iters)
    /\ UNCHANGED << spectrums, iters, it >>

\* train: self.update_parameters(spectrums, stats)
TrainUpdate ==
    /\ pc = "update"
    /\ DoUpdate(spectrums, stats)
    /\ pc' = train_next(pc, err', it, iters)
    /\ it' = IF err' = "none" THEN it + 1 ELSE it
    /\ UNCHANGED << spectrums, iters >>

\* after train has returned: save_param's self.noise_lambda()
ReadMask ==
    /\ pc = "done"
    /\ reads < MaxReads
    /\ DoNoiseLambda
    /\ UNCHANGED << spectrums, iters, pc, it, calls >>

Next == TrainInitSigma \/ TrainAccuStats \/ TrainUpdate \/ ReadMask

Spec == Init /\ [][Next]_vars

\* ------------------------------------------------- a client of the methods
\* A client constructs the trainer, calls init_sigma on its utterance and
\* then calls the methods in any order, MaxCalls times in all: accu_stats and
\* update_parameters with the utterance or with spectra of other dimensions,
\* update_parameters with the grid that accu_stats returned or, on the
\* utterance, with that grid with a zero cell.
InitApi ==
    /\ Fresh
    /\ spectrums \in ApiInputs
    /\ iters = 0
    /\ pc = "client"

ApiInitSigma ==
    /\ Len(calls) < MaxCalls
    /\ DoInitSigma(spectrums)
    /\ UNCHANGED << spectrums, iters, pc, it >>

ApiAccuStats ==
    /\ calls # << >>
    /\ Len(calls) < MaxCalls
    /\ \E sp \in {spectrums} \cup Mismatched(spectrums) : DoAccuStats(sp)
    /\ UNCHANGED << spectrums, iters, pc, it >>

ApiUpdate ==
    /\ stats # Unset
    /\ Len(calls) < MaxCalls
    /\ \/ \E st \in StatsChoices(stats) : DoUpdate(spectrums, st)
       \/ \E sp \in Mismatched(spectrums) : DoUpdate(sp, stats)
    /\ UNCHANGED << spectrums, iters, pc, it >>

ApiNoiseLambda ==
    /\ calls # << >>
    /\ Len(calls) < MaxCalls
    /\ DoNoiseLambda
    /\ calls' = Append(calls, "noise_lambda")
    /\ UNCHANGED << spectrums, iters, pc, it >>

NextApi == ApiInitSigma \/ ApiAccuStats \/ ApiUpdate \/ ApiNoiseLambda

SpecApi == InitApi /\ [][NextApi]_vars

\* ================================================================= claims
Cells == (1..num_bins) \X (1..time_steps)
noise == mvdr.noise_part
noisy == mvdr.noisy_part
LastCall == IF calls = << >> THEN "none" ELSE calls[Len(calls)]

\* lambda_ of the noise class plus lambda_ of the noisy class at a cell
LambdaSum(f, t) == Add(noise.lambda_[f][t], noisy.lambda_[f][t])

\* the cell of the joint grid is a number, and not zero
JointNonZero(f, t) == Finite(joint[f][t]) /\ joint[f][t] # 0

\* C1 as stated: after every completed update_parameters step of train, at
\* every cell whose joint statistic is non-zero, the lambda_ of the two
\* classes add up to exactly 1.
C1_SumIsExactlyOne ==
    (it >= 1 /\ pc # "error") =>
        \A c \in Cells : JointNonZero(c[1], c[2]) => LambdaSum(c[1], c[2]) = One

\* C1 as amended: after every completed update_parameters step of train, at
\* every cell whose joint statistic is a non-zero number and where both
\* lambda_ are numbers, the lambda_ of the two classes add up to 1 within the
\* rounding of the arithmetic: the difference is at most two relative
\* roundings (2^-Precision each) of the magnitudes involved, |lambda_| of
\* either class and the two 1s, plus two units of the smallest number.
C1_SumIsOneWithinRounding ==
    (it >= 1 /\ pc # "error") =>
        \A c \in Cells :
            (/\ JointNonZero(c[1], c[2])
             /\ Finite(noise.lambda_[c[1]][c[2]])
             /\ Finite(noisy.lambda_[c[1]][c[2]])) =>
                /\ Finite(LambdaSum(c[1], c[2]))
                /\ Abs(LambdaSum(c[1], c[2]) - One) * 2^Precision
                     <= 2 * (Abs(noise.lambda_[c[1]][c[2]])
                             + Abs(noisy.lambda_[c[1]][c[2]]) + 2 * One)
                        + 2 * 2^Precision

\* train with iters >= 1 has returned, every joint cell is non-zero and both
\* classes hold a non-zero lambda_ at every cell
C1_Witness ==
    /\ pc = "done" /\ iters >= 1 /\ it = iters
    /\ \A c \in Cells :
         /\ JointNonZero(c[1], c[2])
         /\ noise.lambda_[c[1]][c[2]] # 0
         /\ noisy.lambda_[c[1]][c[2]] # 0
         /\ noise.lambda_[c[1]][c[2]] # noisy.lambda_[c[1]][c[2]]

\* C2: train(spectra, iters = 0) calls init_sigma and accu_stats only and
\* leaves the parameters as init_sigma seeded them: identity matrices with
\* determinant 1 for the noise class, the inverse and the determinant of each
\* bin's time-average covariance for the noisy class, lambda_ all zeros and
\* phi all ones for both.
C2_ZeroItersLeavesInitialized ==
    (pc = "done" /\ iters = 0) =>
        /\ calls = << "init_sigma", "accu_stats" >>
        /\ noise.sigma_inv = [f \in 1..num_bins |-> Eye(dim)]
        /\ noise.sigma_det = [f \in 1..num_bins |-> One]
        /\ noisy.sigma_inv = [f \in 1..num_bins |-> Inv(MeanCovar(CovarOf(spectrums), f, time_steps))]
        /\ noisy.sigma_det = [f \in 1..num_bins |-> Det(MeanCovar(CovarOf(spectrums), f, time_steps))]
        /\ noise.lambda_ = Grid(0) /\ noisy.lambda_ = Grid(0)
        /\ noise.phi = Grid(One) /\ noisy.phi = Grid(One)

\* train with iters = 0 has returned and seeded the noisy class with something
\* other than the identity
C2_Witness ==
    /\ pc = "done" /\ iters = 0
    /\ noisy.sigma_inv # noise.sigma_inv
    /\ noisy.posterior # Grid(0)

\* the entropies that covar_entropy returns on the current state
EntropyNoise == covar_entropy(noise).entropy
EntropyNoisy == covar_entropy(noisy).entropy

\* every row of the mask has time_steps entries and is the row of the class
\* that the entropies e_n of the noise class and e_y of the noisy class select
MaskRowsFollow(e_n, e_y) ==
    \A f \in 1..num_bins :
        /\ Len(mask[f]) = time_steps
        /\ mask[f] = IF Finite(e_n[f]) /\ Finite(e_y[f]) /\ e_n[f] > e_y[f]
                     THEN noise.lambda_[f]
                     ELSE noisy.lambda_[f]

\* C3: the mask that noise_lambda returns has num_bins rows of time_steps
\* entries, and row f is the noise class's lambda_[f] when the noise class's
\* entropy at f is strictly greater than the noisy class's, and the noisy
\* class's lambda_[f] otherwise, equal entropies included.
C3_MaskRows ==
    (mask # Unset) =>
        /\ Len(mask) = num_bins
        /\ MaskRowsFollow(EntropyNoise, EntropyNoisy)

\* a mask has been returned after training; at one bin the noise class has the
\* greater entropy, at another the entropies are equal, and at both bins the
\* rows of the two classes differ
C3_Witness ==
    /\ mask # Unset /\ iters >= 1
    /\ \E f, g \in 1..num_bins :
         /\ Finite(EntropyNoise[f]) /\ Finite(EntropyNoisy[f])
         /\ EntropyNoise[f] > EntropyNoisy[f]
         /\ EntropyNoise[g] = EntropyNoisy[g]
         /\ noise.lambda_[f] # noisy.lambda_[f]
         /\ noise.lambda_[g] # noisy.lambda_[g]

\* C4: a noise_lambda call changes no field of either class nor the
\* covariance cache, and a call that directly follows another returns the
\* same mask.
C4_NoiseLambdaIdempotent ==
    [][(reads' = reads + 1) =>
          /\ mvdr' = mvdr
          /\ (reads >= 1 => mask' = mask)]_vars

\* noise_lambda has been called twice on a trained state and has returned a
\* mask that is not all zeros
C4_Witness ==
    /\ reads = 2 /\ iters >= 1 /\ mask # Unset /\ mask # Grid(0)

\* C5: an accu_stats or update_parameters call with spectra whose dimensions
\* differ from the configured ones raises the assertion error of check_inputs
\* and leaves every field of both classes as it was.
C5_MismatchRejected ==
    [][(calls' # calls /\ calls'[Len(calls')] \in {"accu_stats", "update_parameters"}
          /\ ~check_inputs(arg')) =>
          /\ err' = "AssertionError"
          /\ mvdr' = mvdr]_vars

\* update_parameters has been called with mismatched spectra on a trainer
\* whose classes an earlier update has written
C5_Witness ==
    /\ LastCall = "update_parameters" /\ ~check_inputs(arg)
    /\ err = "AssertionError"
    /\ noise.lambda_ # Grid(0) /\ noise.phi # Grid(One)

\* C6 as stated: when train is called with spectra whose dimensions differ
\* from the configured ones, the input is rejected with the dimension
\* mismatch error before the covariance cache is built or either class's
\* sigma_inv and sigma_det are seeded.
C6_MismatchRejectedAtInit ==
    (calls # << >> /\ ~check_inputs(spectrums)) =>
        /\ err = "AssertionError"
        /\ mvdr.covar = Unset
        /\ noise.sigma_inv = Unset /\ noise.sigma_det = Unset
        /\ noisy.sigma_inv = Unset /\ noisy.sigma_det = Unset

RECURSIVE Expected(_)
\* the calls of a train run of n iterations that no error ends
Expected(n) ==
    IF n = 0 THEN << "init_sigma", "accu_stats" >>
    ELSE Expected(n - 1) \o << "update_parameters", "accu_stats" >>

IsPrefix(a, b) == Len(a) <= Len(b) /\ SubSeq(b, 1, Len(a)) = a

\* C7: train calls init_sigma, accu_stats and then iters times
\* update_parameters followed by accu_stats; each update_parameters is given
\* the grid that the accu_stats before it returned, which is the sum of the
\* two posterior caches; a run that no error ends returns after exactly iters
\* updates, and a run in which a call raises makes no further call.
C7_TrainOrder ==
    /\ [](/\ IsPrefix(calls, Expected(iters))
          /\ (pc = "done" => calls = Expected(iters) /\ it = iters)
          /\ (reads = 0 => (err # "none" <=> pc = "error")))
    /\ [][/\ pc # "error"
          /\ (pc = "done" => calls' = calls)
          /\ (pc = "update" =>
                /\ joint' = stats
                /\ stats = GridAdd(noisy.posterior, noise.posterior))]_vars

\* a run of MaxIters (at least two) iterations has returned after its
\* 2 + 2 * iters calls, and the grid that its last update was given differs
\* from the grid that the last statistics pass returned
C7_Witness ==
    /\ pc = "done" /\ iters = MaxIters /\ iters >= 2
    /\ Len(calls) = 2 + 2 * iters
    /\ joint # stats

\* C8 as stated: an update_parameters call (update_lambda) that is given a
\* joint grid with a zero cell reports an error.
C8_ZeroCellReported ==
    (LastCall = "update_parameters" /\ check_inputs(arg)
       /\ \E c \in Cells : joint[c[1]][c[2]] = 0)
      => err # "none"

\* the phi grid that update_phi computes from the covariance cache and the
\* sigma_inv of the class c
PhiFrom(c, covar) ==
    [f \in 1..num_bins |-> [t \in 1..time_steps |->
        Div(Trace(MatMul(CovarAt(covar, f, t), c.sigma_inv[f])), Num(dim))]]

\* the class new holds at bin f the inverse and the determinant of R
SigmaFrom(new, f, R) == new.sigma_inv[f] = Inv(R) /\ new.sigma_det[f] = Det(R)

\* C9: in an update_parameters call that completes, for each class, the new
\* lambda_ is the posterior cache over the joint grid, the new phi is computed
\* from the sigma_inv that the class had before the call, and the new
\* sigma_inv[f] and sigma_det[f] are the inverse and the determinant of the
\* one matrix computed from the new lambda_ and the new phi.
C9_UpdateOrder ==
    [][(pc = "update" /\ err' = "none") =>
          \A cls \in {"noise_part", "noisy_part"} :
             /\ mvdr'[cls].lambda_ =
                    [f \in 1..num_bins |-> [t \in 1..time_steps |->
                        Div(mvdr[cls].posterior[f][t], stats[f][t])]]
             /\ mvdr'[cls].phi = PhiFrom(mvdr[cls], mvdr.covar)
             /\ \A f \in 1..num_bins :
                    SigmaFrom(mvdr'[cls], f, SigmaOf(mvdr'[cls], mvdr.covar, f))]_vars

\* the second update of a run has completed: the phi and the sigma_inv it read
\* were those of the first update, and it changed both
C9_Witness ==
    /\ it = 2 /\ LastCall = "update_parameters" /\ err = "none"
    /\ noisy.phi # Grid(One) /\ noise.phi # Grid(One)
    /\ noise.phi # PhiFrom(noise, mvdr.covar)
    /\ noisy.phi # PhiFrom(noisy, mvdr.covar)

\* one step of one class's update on the trainer m: step 1 is update_lambda,
\* step 2 update_phi, step 3 update_sigma
StepOn(m, cls, k, st) ==
    IF k = 1 THEN [m EXCEPT ![cls] = update_lambda(m[cls], st)]
    ELSE IF k = 2 THEN [m EXCEPT ![cls] = update_phi(m[cls], m.covar)]
    ELSE [m EXCEPT ![cls] = update_sigma(m[cls], m.covar).c]

\* the orders in which the three steps of the noise class and the three steps
\* of the noisy class can be interleaved
Interleavings ==
    {o \in [1..6 -> {"noise_part", "noisy_part"}] :
        Cardinality({i \in 1..6 : o[i] = "noise_part"}) = 3}

RECURSIVE RunOrder(_, _, _, _)
\* the trainer after the first n steps of the order o
RunOrder(m, o, n, st) ==
    IF n = 0 THEN m
    ELSE StepOn(RunOrder(m, o, n - 1, st), o[n],
                Cardinality({i \in 1..n : o[i] = o[n]}), st)

\* C10: neither an update_parameters call nor an accu_stats pass changes the
\* covariance cache or the joint grid it was given, and when an
\* update_parameters call completes, the state it leaves is the state that
\* every interleaving of the two classes' update steps leaves (the noisy
\* class first included).
C10_ClassesIndependent ==
    [][/\ (pc = "accu_stats" => mvdr'.covar = mvdr.covar /\ joint' = joint)
       /\ (pc = "update" =>
             /\ mvdr'.covar = mvdr.covar
             /\ stats' = stats
             /\ (err' = "none" =>
                   \A o \in Interleavings : RunOrder(mvdr, o, 6, stats) = mvdr'))]_vars

\* an update has completed and has left the two classes with different
\* lambda_, phi and sigma_inv
C10_Witness ==
    /\ LastCall = "update_parameters" /\ err = "none" /\ it >= 1
    /\ noise.lambda_ # noisy.lambda_
    /\ noise.phi # noisy.phi
    /\ noise.sigma_inv # noisy.sigma_inv

=============================================================================
